---- MODULE Spec2Model ----
(***************************************************************************)
(* Model of the AI anomaly detection service:                              *)
(*   security_monitor.py  SecurityMonitor (sliding windows, rule engine,   *)
(*                        ML stage, training, summary, reset)              *)
(*   main.py              metrics detector (/train, /detect),              *)
(*                        security_middleware, /security/analyze           *)
(*                                                                         *)
(* Conventions.                                                            *)
(*  - Text values (client ip, user agent, endpoint, method) are sequences  *)
(*    of one-character strings, so that lower(), `in` and the f-string     *)
(*    concatenation of the error key are computed, not assumed.            *)
(*  - Risk scores are kept in tenths: 3 is 0.3, 10 is 1.0.  For the six    *)
(*    weights of the code every comparison the program makes (> 0.5,       *)
(*    min(., 1.0)) has the same outcome in binary floating point as in     *)
(*    tenths.                                                              *)
(*  - Time is in whole seconds; time.time() readings never decrease.       *)
(*  - Handlers are `async def` coroutines of one event loop and the bodies *)
(*    of analyze_request, train_security_model, train_model and            *)
(*    detect_anomaly contain no await, so each runs as one atomic step.    *)
(***************************************************************************)
EXTENDS Integers, Sequences, FiniteSets, TLC

VARIABLES
    now,                \* the reading time.time() gives at this moment
    ip_request_counts,  \* SecurityMonitor.ip_request_counts (defaultdict(int))
    ip_request_times,   \* SecurityMonitor.ip_request_times (defaultdict(deque))
    has_error_counts,   \* hasattr(self, 'error_counts')
    error_counts,       \* SecurityMonitor.error_counts (defaultdict(int))
    is_trained,         \* SecurityMonitor.is_trained
    security_model,     \* SecurityMonitor.security_model (IsolationForest)
    ret,                \* the last call: operation, arguments, outcome
    ncalls,             \* analyze_request calls made so far (bounded)
    nticks,             \* clock advances made so far (bounded)
    ntrains,            \* train_security_model calls made so far (bounded)
    isolation_forest,   \* main.py: the global isolation_forest
    scaler,             \* main.py: the global scaler
    training_data,      \* main.py: the global training_data
    is_model_trained,   \* main.py: the global is_model_trained
    anomaly_counter,    \* main.py: the Prometheus counter anomaly_counter
    mret,               \* the last metrics call: operation, arguments, outcome
    mstats,             \* how many metrics calls have ended in which way
    handlers,           \* security_middleware: the requests in flight
    calls               \* the analyze_request calls main.py has made, in order

secvars == <<ip_request_counts, ip_request_times, has_error_counts,
             error_counts, is_trained, security_model>>

metvars == <<isolation_forest, scaler, training_data, is_model_trained,
             anomaly_counter, mret, mstats>>

mwvars == <<handlers, calls>>

vars == <<now, ip_request_counts, ip_request_times, has_error_counts,
          error_counts, is_trained, security_model, ret, ncalls, nticks,
          ntrains, isolation_forest, scaler, training_data, is_model_trained,
          anomaly_counter, mret, mstats, handlers, calls>>

----------------------------------------------------------------------------
(* Bounds of the model *)

MaxCalls == 1
MaxTicks == 1
MaxTrains == 2
MaxMetricTrains == 2
MaxDetects == 2
BurstCalls == 52
MaxHandlers == 2

----------------------------------------------------------------------------
(* Text helpers *)

UpperAlpha ==
    <<"A","B","C","D","E","F","G","H","I","J","K","L","M",
      "N","O","P","Q","R","S","T","U","V","W","X","Y","Z">>

LowerAlpha ==
    <<"a","b","c","d","e","f","g","h","i","j","k","l","m",
      "n","o","p","q","r","s","t","u","v","w","x","y","z">>

\* str.lower() on one character
LowerChar(c) ==
    IF \E i \in 1..26 : UpperAlpha[i] = c
    THEN LowerAlpha[CHOOSE i \in 1..26 : UpperAlpha[i] = c]
    ELSE c

\* str.lower()
Lower(s) == [i \in 1..Len(s) |-> LowerChar(s[i])]

\* Python's `sub in s` on strings
Contains(sub, s) ==
    \E i \in 0..(Len(s) - Len(sub)) : SubSeq(s, i + 1, i + Len(sub)) = sub

\* dict.get(key, default) and defaultdict reads
Get(d, k, default) == IF k \in DOMAIN d THEN d[k] ELSE default

\* d[k] = v on a dict
Put(d, k, v) == [x \in DOMAIN d \cup {k} |-> IF x = k THEN v ELSE d[x]]

EmptyDict == [x \in {} |-> 0]

----------------------------------------------------------------------------
(* Constants of SecurityMonitor *)

max_requests_per_ip_per_minute == 50
WindowSeconds == 60
ErrorThreshold == 10
ErrorStatus == 400
MinSamples == 10

\* weights of the rules, in tenths
UaWeight == 3
RateWeight == 4
EndpointWeight == 2
MethodWeight == 1
ErrorWeight == 3
MlWeight == 5
ScoreCap == 10
ThreatThreshold == 5

suspicious_user_agents ==
    << <<"s","q","l","m","a","p">>, <<"n","m","a","p">>,
       <<"n","i","k","t","o">>, <<"d","i","r","b">>,
       <<"g","o","b","u","s","t","e","r">>, <<"w","f","u","z","z">>,
       <<"b","u","r","p">>, <<"z","a","p">>,
       <<"s","c","a","n","n","e","r">>, <<"b","o","t">>,
       <<"c","r","a","w","l","e","r">>, <<"s","p","i","d","e","r">> >>

suspicious_endpoints ==
    << <<"/","a","d","m","i","n">>, <<"/","w","p","-","a","d","m","i","n">>,
       <<"/","p","h","p","m","y","a","d","m","i","n">>, <<"/",".","e","n","v">>,
       <<"/","c","o","n","f","i","g">>,
       <<"/","a","p","i","/","v","1","/","a","d","m","i","n">>,
       <<"/","i","n","t","e","r","n","a","l">>, <<"/","d","e","b","u","g">>,
       <<"/","t","e","s","t">> >>

AllowedMethods ==
    { <<"G","E","T">>, <<"P","O","S","T">>, <<"P","U","T">>,
      <<"D","E","L","E","T","E">>, <<"P","A","T","C","H">> }

----------------------------------------------------------------------------
(* Inputs *)

Unknown == <<"u","n","k","n","o","w","n">>
GET == <<"G","E","T">>
POST == <<"P","O","S","T">>
Colon == <<":">>

\* str(n) for n >= 0, as the f-strings format it
Digit(d) == <<"0","1","2","3","4","5","6","7","8","9">>[d + 1]

RECURSIVE Str(_)
Str(n) == IF n < 10 THEN <<Digit(n)>> ELSE Str(n \div 10) \o <<Digit(n % 10)>>

ClientA == <<"a">>
ClientAB == <<"a",":","b">>
Clients == {ClientA, ClientAB}

UaPlain == <<"c","u","r","l">>
UaSqlmap == <<"s","q","l","m","a","p","/","1",".","0">>
UaNmapBot == <<"N","m","a","p","B","o","t">>
UserAgents == {UaPlain, UaSqlmap, UaNmapBot}

EpLogin == <<"/","l","o","g","i","n">>
EpBLogin == <<"b",":","/","l","o","g","i","n">>
EpAdmin == <<"/","A","d","m","i","n">>
EpAnalyze ==
    <<"/","s","e","c","u","r","i","t","y","/","a","n","a","l","y","z","e">>
Endpoints == {EpLogin, EpBLogin, EpAdmin}

Methods == {GET, <<"T","R","A","C","E">>}

Statuses == {200, ErrorStatus}

\* the request dicts handed to analyze_request: all five keys, or none of them
Requests ==
    [client_ip : Clients, user_agent : UserAgents, endpoint : Endpoints,
     method : Methods, status_code : Statuses]
    \cup {[timestamp |-> 0]}

\* every text a call can carry in a field, the defaults of lines 34-37 included
ClientTexts == Clients \cup {Unknown}
UserAgentTexts == UserAgents \cup {<<>>}
EndpointTexts == Endpoints \cup {<<>>, EpAnalyze}
MethodTexts == Methods \cup {POST}

\* what the IsolationForest calls of the ML stage do: predict +1, predict -1,
\* or raise
MlOutcomes == {"normal", "anomaly", "error"}

----------------------------------------------------------------------------
(* analyze_request, piece by piece *)

\* Prune with the comparison of line 50 turned round
PruneReversed(times, minute_ago) ==
    LET kept == {i \in 1..Len(times) : ~(times[i] > minute_ago)}
        first == IF kept = {} THEN Len(times) + 1
                 ELSE CHOOSE i \in kept : \A j \in kept : i <= j
    IN  SubSeq(times, first, Len(times))

\* lines 49-51: popleft while the oldest entry is older than the cutoff; the
\* loop stops at the first entry that is not, whatever follows it
Prune(times, minute_ago) ==
    LET kept == {i \in 1..Len(times) : ~(times[i] < minute_ago)}
        first == IF kept = {} THEN Len(times) + 1
                 ELSE CHOOSE i \in kept : \A j \in kept : i <= j
    IN  SubSeq(times, first, Len(times))

\* Track working on a snapshot of the window taken before the append: the
\* pruned snapshot is stored back and the appended timestamp is lost
TrackStaleWindow(counts, times, client_ip, current_time) ==
    [counts |-> Put(counts, client_ip, Get(counts, client_ip, 0) + 1),
     times |-> Put(times, client_ip,
                   Prune(Get(times, client_ip, <<>>),
                         current_time - WindowSeconds))]

\* lines 44-51: count, append, prune; gives the new counts and windows
Track(counts, times, client_ip, current_time) ==
    LET appended == Append(Get(times, client_ip, <<>>), current_time)
    IN  [counts |-> Put(counts, client_ip, Get(counts, client_ip, 0) + 1),
         times |-> Put(times, client_ip,
                       Prune(appended, current_time - WindowSeconds))]

\* index of the first entry of list that occurs in s, 0 when none does
FirstMatch(list, s) ==
    LET hits == {i \in 1..Len(list) : Contains(list[i], s)}
    IN  IF hits = {} THEN 0 ELSE CHOOSE i \in hits : \A j \in hits : i <= j

Threat(rule, detail, weight) ==
    [rule |-> rule, detail |-> detail, weight |-> weight]

\* UaRule without the break of line 59: one threat for every entry that matches
UaRuleNoBreak(user_agent) ==
    LET hits == SelectSeq(suspicious_user_agents,
                          LAMBDA e : Contains(e, Lower(user_agent)))
    IN  [i \in 1..Len(hits) |-> Threat("ua", hits[i], UaWeight)]

\* lines 54-59: the threats the user agent rule appends
UaRule(user_agent) ==
    LET i == FirstMatch(suspicious_user_agents, Lower(user_agent))
    IN  IF i = 0 THEN <<>>
        ELSE <<Threat("ua", suspicious_user_agents[i], UaWeight)>>

UaRuleOf == [user_agent \in UserAgentTexts |-> UaRule(user_agent)]

\* RateRule with >= for the > of line 63
RateRuleAtThreshold(recent_requests) ==
    IF recent_requests >= max_requests_per_ip_per_minute
    THEN <<Threat("rate", Str(recent_requests), RateWeight)>>
    ELSE <<>>

\* lines 62-65
RateRule(recent_requests) ==
    IF recent_requests > max_requests_per_ip_per_minute
    THEN <<Threat("rate", Str(recent_requests), RateWeight)>>
    ELSE <<>>

\* EndpointRule without the lower() of line 73
EndpointRuleCaseSensitive(endpoint) ==
    IF FirstMatch(suspicious_endpoints, endpoint) # 0
    THEN <<Threat("endpoint", endpoint, EndpointWeight)>>
    ELSE <<>>

\* lines 68-76
EndpointRule(endpoint) ==
    IF FirstMatch(suspicious_endpoints, Lower(endpoint)) # 0
    THEN <<Threat("endpoint", endpoint, EndpointWeight)>>
    ELSE <<>>

EndpointRuleOf == [endpoint \in EndpointTexts |-> EndpointRule(endpoint)]

\* lines 79-81
MethodRule(method) ==
    IF method \notin AllowedMethods
    THEN <<Threat("method", method, MethodWeight)>>
    ELSE <<>>

MethodRuleOf == [method \in MethodTexts |-> MethodRule(method)]

\* line 85
ErrorKey(client_ip, endpoint) == client_ip \o Colon \o endpoint

ErrorKeyOf ==
    [client_ip \in ClientTexts |->
       [endpoint \in EndpointTexts |-> ErrorKey(client_ip, endpoint)]]

\* lines 84-88: the error counters after the call
CountError(errors, client_ip, endpoint, status_code) ==
    IF status_code >= ErrorStatus
    THEN Put(errors, ErrorKeyOf[client_ip][endpoint],
             Get(errors, ErrorKeyOf[client_ip][endpoint], 0) + 1)
    ELSE errors

\* lines 84-92, errors being the counters after the increment
ErrorRule(errors, client_ip, endpoint, status_code) ==
    IF status_code >= ErrorStatus
       /\ errors[ErrorKeyOf[client_ip][endpoint]] > ErrorThreshold
    THEN <<Threat("error", client_ip \o <<" ","o","n"," ">> \o endpoint,
                  ErrorWeight)>>
    ELSE <<>>

\* MlRule taking a call of the model that raised for a flagged outlier
MlRuleOnError(trained, recent_requests, ml) ==
    IF trained /\ recent_requests > 0 /\ ml \in {"anomaly", "error"}
    THEN <<Threat("ml", <<>>, MlWeight)>>
    ELSE <<>>

\* lines 95-112: the ML stage; ml is what the model's calls do
MlRule(trained, recent_requests, ml) ==
    IF trained /\ recent_requests > 0 /\ ml = "anomaly"
    THEN <<Threat("ml", <<>>, MlWeight)>>
    ELSE <<>>

\* whether lines 96-106 run at all
MlEvaluated(trained, recent_requests) == trained /\ recent_requests > 0

\* an ML stage whose try has no except clause that matches
CaughtNothing(ml) == FALSE

\* lines 104-112: what decision_function or predict raise is an Exception,
\* which the except clause of line 111 catches and logs
Caught(ml) == ml = "error"

\* whether an exception leaves analyze_request
MlRaises(trained, recent_requests, ml) ==
    MlEvaluated(trained, recent_requests) /\ ml = "error" /\ ~Caught(ml)

\* Features with the score capped at 1.0 before it goes into the vector
FeaturesCapped(recent_requests, user_agent, endpoint, status_code, risk) ==
    <<recent_requests, Len(user_agent), Len(endpoint), status_code,
      IF risk < ScoreCap THEN risk ELSE ScoreCap>>

\* lines 96-102: the feature vector the model is asked about; risk_score is
\* the accumulator as rules 1-5 left it
Features(recent_requests, user_agent, endpoint, status_code, risk_score) ==
    <<recent_requests, Len(user_agent), Len(endpoint), status_code, risk_score>>

RECURSIVE SumWeights(_)
SumWeights(threats) ==
    IF threats = <<>> THEN 0
    ELSE Head(threats).weight + SumWeights(Tail(threats))

\* Capped without the min of line 116
CappedNoMin(risk_score) == risk_score

\* line 116
Capped(risk_score) == IF risk_score < ScoreCap THEN risk_score ELSE ScoreCap

\* line 117
IsThreat(risk_score) == risk_score > ThreatThreshold

\* lines 31-124: the monitor after the call, the returned dict, and what the
\* call saw on the way (its window size, the rule score before the ML stage)
Analyze(m, request_data, current_time, ml) ==
    LET client_ip == Get(request_data, "client_ip", Unknown)
        user_agent == Get(request_data, "user_agent", <<>>)
        endpoint == Get(request_data, "endpoint", <<>>)
        method == Get(request_data, "method", GET)
        status_code == Get(request_data, "status_code", 200)
        tr == Track(m.counts, m.times, client_ip, current_time)
        recent_requests == Len(tr.times[client_ip])
        errors == CountError(m.errors, client_ip, endpoint, status_code)
        rules == UaRuleOf[user_agent] \o RateRule(recent_requests)
                 \o EndpointRuleOf[endpoint] \o MethodRuleOf[method]
                 \o ErrorRule(errors, client_ip, endpoint, status_code)
        threats == rules \o MlRule(m.is_trained, recent_requests, ml)
        risk_score == SumWeights(threats)
    IN  [m |-> [m EXCEPT !.counts = tr.counts, !.times = tr.times,
                         !.errors = errors,
                         !.has_errors = @ \/ status_code >= ErrorStatus],
         result |-> [threats |-> threats,
                     risk_score |-> Capped(risk_score),
                     is_threat |-> IsThreat(risk_score),
                     client_ip |-> client_ip,
                     timestamp |-> current_time,
                     user_agent |-> user_agent,
                     endpoint |-> endpoint,
                     method |-> method,
                     status_code |-> status_code],
         recent_requests |-> recent_requests,
         rule_score |-> SumWeights(rules),
         raw_score |-> risk_score,
         ml_ran |-> MlEvaluated(m.is_trained, recent_requests),
         features |-> Features(recent_requests, user_agent, endpoint,
                               status_code, SumWeights(rules)),
         raised |-> MlRaises(m.is_trained, recent_requests, ml)]

----------------------------------------------------------------------------
(* SecurityMonitor: state and operations *)

\* line 20: an IsolationForest nobody has fitted yet.  fits counts the
\* completed fit calls, samples is the size of the batch of the last one.
UnfittedModel == [fits |-> 0, samples |-> 0]

\* lines 15-29: the monitor __init__ builds
Fresh ==
    [counts |-> EmptyDict, times |-> EmptyDict, errors |-> EmptyDict,
     has_errors |-> FALSE, is_trained |-> FALSE, model |-> UnfittedModel]

\* the monitor as one value
Monitor ==
    [counts |-> ip_request_counts, times |-> ip_request_times,
     errors |-> error_counts, has_errors |-> has_error_counts,
     is_trained |-> is_trained, model |-> security_model]

SetMonitor(m) ==
    /\ ip_request_counts' = m.counts
    /\ ip_request_times' = m.times
    /\ error_counts' = m.errors
    /\ has_error_counts' = m.has_errors
    /\ is_trained' = m.is_trained
    /\ security_model' = m.model

\* Histories the runs start from: a fresh monitor, or one that one client has
\* called at time 0, ok times with status 200 and then err times with status
\* 400 on one endpoint, which leaves its window or that error counter at its
\* threshold or one call short of it.
WarmUps ==
    {[client |-> ClientA, ok |-> 0, err |-> 0, endpoint |-> EpLogin],
     [client |-> ClientA, ok |-> max_requests_per_ip_per_minute - 1,
      err |-> 0, endpoint |-> EpLogin],
     [client |-> ClientA, ok |-> max_requests_per_ip_per_minute, err |-> 0,
      endpoint |-> EpLogin],
     [client |-> ClientAB, ok |-> 0, err |-> ErrorThreshold,
      endpoint |-> EpLogin]}
    \cup
    [client : {ClientA},
     ok : {0, max_requests_per_ip_per_minute - ErrorThreshold},
     err : {ErrorThreshold - 1, ErrorThreshold},
     endpoint : {EpLogin, EpAdmin}]

\* the monitor those calls leave (lines 44-51 and 84-88, no pruning at time 0)
Warmed(w) ==
    IF w.ok + w.err = 0 THEN Fresh
    ELSE [Fresh EXCEPT
            !.counts = Put(EmptyDict, w.client, w.ok + w.err),
            !.times = Put(EmptyDict, w.client, [i \in 1..(w.ok + w.err) |-> 0]),
            !.errors = IF w.err = 0 THEN EmptyDict
                       ELSE Put(EmptyDict, ErrorKey(w.client, w.endpoint), w.err),
            !.has_errors = w.err > 0]

\* main.py line 65, before the startup event has run
NoForest == [none |-> TRUE]

\* main.py line 66: a StandardScaler nobody has fitted.  fit names the batch
\* the scaler was last fitted on (the number of the train call), 0 for none.
UnfittedScaler == [fit |-> 0]

\* main.py lines 64-68
MetricsInit ==
    /\ isolation_forest = NoForest
    /\ scaler = UnfittedScaler
    /\ training_data = 0
    /\ is_model_trained = FALSE
    /\ anomaly_counter = 0
    /\ mret = [op |-> "init"]
    /\ mstats = [trains |-> 0, trains_ok |-> 0, detects |-> 0, results |-> 0]

Handlers == 1..MaxHandlers

\* no request is in flight
MiddlewareInit ==
    /\ handlers = [h \in Handlers |-> [pc |-> "idle"]]
    /\ calls = <<>>

\* security_monitor.py line 186 and main.py lines 64-68: the module globals
ColdInit ==
    /\ now = 0
    /\ ip_request_counts = Fresh.counts
    /\ ip_request_times = Fresh.times
    /\ error_counts = Fresh.errors
    /\ has_error_counts = Fresh.has_errors
    /\ is_trained = FALSE
    /\ security_model = UnfittedModel
    /\ ret = [op |-> "init"]
    /\ ncalls = 0
    /\ nticks = 0
    /\ ntrains = 0
    /\ MetricsInit
    /\ MiddlewareInit

Init ==
    /\ now = 0
    /\ \E w \in WarmUps :
         /\ ip_request_counts = Warmed(w).counts
         /\ ip_request_times = Warmed(w).times
         /\ error_counts = Warmed(w).errors
         /\ has_error_counts = Warmed(w).has_errors
    /\ is_trained = FALSE
    /\ security_model = UnfittedModel
    /\ ret = [op |-> "init"]
    /\ ncalls = 0
    /\ nticks = 0
    /\ ntrains = 0
    /\ MetricsInit
    /\ MiddlewareInit

\* the clock moves on between two calls
TickSteps == {WindowSeconds, WindowSeconds + 1}

Tick(d) ==
    /\ nticks < MaxTicks
    /\ now' = now + d
    /\ nticks' = nticks + 1
    /\ UNCHANGED <<secvars, ret, ncalls, ntrains, metvars, mwvars>>

\* one call of analyze_request at the present clock reading: lines 31-124
Call(request_data, ml) ==
    /\ ml = "normal" \/ is_trained
    /\ LET a == Analyze(Monitor, request_data, now, ml)
       IN  /\ SetMonitor(a.m)
           /\ ret' = IF a.raised
                     THEN [op |-> "analyze", raised |-> TRUE]
                     ELSE [op |-> "analyze", raised |-> FALSE,
                           result |-> a.result,
                           recent_requests |-> a.recent_requests,
                           rule_score |-> a.rule_score,
                           raw_score |-> a.raw_score,
                           ml |-> IF a.ml_ran THEN ml ELSE "skipped",
                           features |-> IF a.ml_ran THEN a.features ELSE <<>>]
    /\ ncalls' = ncalls + 1

\* SecurityMonitor.analyze_request(request_data)
AnalyzeRequest(request_data, ml) ==
    /\ ncalls < MaxCalls
    /\ Call(request_data, ml)
    /\ UNCHANGED <<now, nticks, ntrains, metvars, mwvars>>

\* what train_security_model is handed: the batch size, whether an element
\* of the batch has no .get (lines 130-138 raise), whether fit raises
TrainSizes == {0, MinSamples - 1, MinSamples}
TrainInputs == [n : TrainSizes, malformed : BOOLEAN, fit_raises : BOOLEAN]

\* Train with the size check of lines 140-142 placed after the fit
TrainChecksAfterFit(m, in) ==
    IF in.malformed \/ in.fit_raises THEN [m |-> m, value |-> FALSE]
    ELSE [m |-> [m EXCEPT !.model = [fits |-> m.model.fits + 1,
                                      samples |-> in.n],
                          !.is_trained = TRUE],
          value |-> in.n >= MinSamples]

\* lines 128-153: the monitor after the call and the value returned
Train(m, in) ==
    IF in.malformed THEN [m |-> m, value |-> FALSE]
    ELSE IF in.n < MinSamples THEN [m |-> m, value |-> FALSE]
    ELSE IF in.fit_raises THEN [m |-> m, value |-> FALSE]
    ELSE [m |-> [m EXCEPT !.model = [fits |-> m.model.fits + 1,
                                      samples |-> in.n],
                          !.is_trained = TRUE],
          value |-> TRUE]

\* SecurityMonitor.train_security_model(historical_data)
TrainSecurityModel(in) ==
    /\ ntrains < MaxTrains
    /\ SetMonitor(Train(Monitor, in).m)
    /\ ret' = [op |-> "train", n |-> in.n, value |-> Train(Monitor, in).value,
               before |-> [is_trained |-> is_trained,
                           security_model |-> security_model]]
    /\ ntrains' = ntrains + 1
    /\ UNCHANGED <<now, ncalls, nticks, metvars, mwvars>>

\* lines 161-162
ActiveIps(times, current_time) ==
    Cardinality({ip \in DOMAIN times :
                   /\ times[ip] # <<>>
                   /\ times[ip][Len(times[ip])] > current_time - WindowSeconds})

\* lines 165-166
HighRiskIps(times) ==
    Cardinality({ip \in DOMAIN times :
                   Len(times[ip]) > max_requests_per_ip_per_minute})

RECURSIVE SumValues(_)
SumValues(d) ==
    IF DOMAIN d = {} THEN 0
    ELSE LET k == CHOOSE x \in DOMAIN d : TRUE
         IN  d[k] + SumValues([x \in DOMAIN d \ {k} |-> d[x]])

\* lines 155-174
Summary(m, current_time) ==
    [active_ips |-> ActiveIps(m.times, current_time),
     high_risk_ips |-> HighRiskIps(m.times),
     total_requests_tracked |-> SumValues(m.counts),
     model_trained |-> m.is_trained,
     suspicious_patterns_count |-> 0]

\* SecurityMonitor.get_security_summary()
GetSecuritySummary ==
    /\ ret' = [op |-> "summary", value |-> Summary(Monitor, now), at |-> now]
    /\ UNCHANGED <<now, secvars, ncalls, nticks, ntrains, metvars, mwvars>>

\* Reset without the clearing of the error counters (lines 183-184)
ResetKeepsErrors(m) ==
    [m EXCEPT !.counts = EmptyDict,
              !.times = [ip \in DOMAIN m.times |-> <<>>]]

\* Reset forgetting the training as well
ResetForgetsModel(m) ==
    [m EXCEPT !.counts = EmptyDict,
              !.times = [ip \in DOMAIN m.times |-> <<>>],
              !.errors = EmptyDict,
              !.is_trained = FALSE]

\* lines 176-184
Reset(m) ==
    [m EXCEPT !.counts = EmptyDict,
              !.times = [ip \in DOMAIN m.times |-> <<>>],
              !.errors = EmptyDict]

\* SecurityMonitor.reset_counters()
ResetCounters ==
    /\ SetMonitor(Reset(Monitor))
    /\ ret' = [op |-> "reset",
               before |-> [is_trained |-> is_trained,
                           security_model |-> security_model]]
    /\ UNCHANGED <<now, ncalls, nticks, ntrains, metvars, mwvars>>

Next ==
    \/ \E d \in TickSteps : Tick(d)
    \/ \E request_data \in Requests, ml \in MlOutcomes :
         AnalyzeRequest(request_data, ml)
    \/ \E in \in TrainInputs : TrainSecurityModel(in)
    \/ GetSecuritySummary
    \/ ResetCounters

Spec == Init /\ [][Next]_vars

----------------------------------------------------------------------------
(* Two analyze_request calls from the same monitor, on requests that differ *)
(* in the user agent alone                                                   *)

DenylistedUserAgents ==
    {ua \in UserAgentTexts : FirstMatch(suspicious_user_agents, Lower(ua)) # 0}

CleanUserAgents == UserAgentTexts \ DenylistedUserAgents

\* The call with request_data is made; what the same call with the other user
\* agent would have returned from the same monitor is kept beside its result.
AnalyzePair(request_data, other_agent) ==
    /\ ncalls < MaxCalls
    /\ "user_agent" \in DOMAIN request_data
    /\ request_data.user_agent \in DenylistedUserAgents
    /\ other_agent \in CleanUserAgents
    /\ LET a == Analyze(Monitor, request_data, now, "normal")
           b == Analyze(Monitor, [request_data EXCEPT !.user_agent = other_agent],
                        now, "normal")
       IN  /\ SetMonitor(a.m)
           /\ ret' = [op |-> "pair", result |-> a.result,
                      raw_score |-> a.raw_score,
                      other |-> b.result, other_raw_score |-> b.raw_score,
                      trained |-> is_trained]
    /\ ncalls' = ncalls + 1
    /\ UNCHANGED <<now, nticks, ntrains, metvars, mwvars>>

PairNext ==
    \/ \E d \in TickSteps : Tick(d)
    \/ \E request_data \in Requests, other_agent \in UserAgentTexts :
         AnalyzePair(request_data, other_agent)
    \/ ResetCounters

PairSpec == Init /\ [][PairNext]_vars

----------------------------------------------------------------------------
(* A burst: one client, starting with no history, sends the same request   *)
(* again and again within a few seconds                                     *)

BurstSeconds == 10

BurstRequest ==
    [client_ip |-> ClientA, user_agent |-> UaSqlmap, endpoint |-> EpLogin,
     method |-> GET, status_code |-> 200]

BurstAnalyze(ml) ==
    /\ ncalls < BurstCalls
    /\ Call(BurstRequest, ml)
    /\ UNCHANGED <<now, nticks, ntrains, metvars, mwvars>>

BurstTick ==
    /\ now < BurstSeconds
    /\ now' = BurstSeconds
    /\ nticks' = nticks + 1
    /\ UNCHANGED <<secvars, ret, ncalls, ntrains, metvars, mwvars>>

\* train_security_model with a batch that is large enough and fits
BurstTrain ==
    TrainSecurityModel([n |-> MinSamples, malformed |-> FALSE,
                        fit_raises |-> FALSE])

BurstNext ==
    \/ \E ml \in MlOutcomes : BurstAnalyze(ml)
    \/ BurstTick
    \/ BurstTrain

BurstSpec == ColdInit /\ [][BurstNext]_vars

----------------------------------------------------------------------------
(* security_middleware: main.py lines 262-300 *)

\* what the middleware reads from a request: lines 268-271.  The route
\* POST /security/analyze is the one whose endpoint calls analyze_request
\* itself; the other paths are served without touching the monitor.
MwRequests ==
    [client_ip : Clients, user_agent : {UaSqlmap},
     endpoint : {EpLogin, EpBLogin}, method : {GET}]
    \cup
    [client_ip : {ClientA}, user_agent : {UaSqlmap}, endpoint : {EpAnalyze},
     method : {POST}]

\* the SecurityRequest bodies of POST /security/analyze (main.py lines 49-55)
Bodies ==
    [client_ip : Clients, user_agent : {UaPlain}, endpoint : {EpLogin},
     method : {GET}, status_code : Statuses]

\* lines 274-280: the dict of the first call
FirstData(req) ==
    [client_ip |-> req.client_ip, user_agent |-> req.user_agent,
     endpoint |-> req.endpoint, method |-> req.method, status_code |-> 200]

\* FinalData without the assignment of line 292
FinalDataStale(request_data, status_code) == request_data

\* line 292: the same dict with the status of the response
FinalData(request_data, status_code) ==
    [request_data EXCEPT !.status_code = status_code]

\* the log of analyze_request calls: which HTTP request made the call, from
\* the middleware or from the endpoint, and what the call was and saw
LogCall(h, by, a) ==
    calls' = Append(calls, [handler |-> h, by |-> by,
                            client_ip |-> a.result.client_ip,
                            timestamp |-> a.result.timestamp,
                            status_code |-> a.result.status_code,
                            recent_requests |-> a.recent_requests])

\* lines 265-289: up to the await of call_next
MwEnter(h, req) ==
    /\ handlers[h].pc = "idle"
    /\ Call(FirstData(req), "normal")
    /\ handlers' = [handlers EXCEPT ![h] =
                      [pc |-> "awaiting", request_data |-> FirstData(req),
                       security_result |-> ret'.result]]
    /\ LogCall(h, "middleware", [result |-> ret'.result,
                                 recent_requests |-> ret'.recent_requests])
    /\ UNCHANGED <<now, nticks, ntrains, metvars>>

\* main.py lines 197-216, inside call_next: the endpoint of
\* POST /security/analyze analyses the request its body describes
MwServe(h, body) ==
    /\ handlers[h].pc = "awaiting"
    /\ handlers[h].request_data.endpoint = EpAnalyze
    /\ handlers[h].request_data.method = POST
    /\ Call(body, "normal")
    /\ handlers' = [handlers EXCEPT ![h].pc = "served"]
    /\ LogCall(h, "endpoint", [result |-> ret'.result,
                               recent_requests |-> ret'.recent_requests])
    /\ UNCHANGED <<now, nticks, ntrains, metvars>>

\* lines 289-300: from the response of call_next to the return.  An endpoint
\* that has run answers 200; a request that did not reach it (no such route,
\* a body that does not validate) gets the status the framework answers.
MwLeave(h, status_code) ==
    /\ handlers[h].pc \in {"awaiting", "served"}
    /\ handlers[h].pc = "served" => status_code = 200
    /\ (handlers[h].pc = "awaiting"
        /\ handlers[h].request_data.endpoint = EpAnalyze) =>
          status_code >= ErrorStatus
    /\ Call(FinalData(handlers[h].request_data, status_code), "normal")
    /\ handlers' = [handlers EXCEPT ![h] =
                      [pc |-> "done",
                       served |-> handlers[h].pc = "served",
                       response_status |-> status_code,
                       request_data |->
                         FinalData(handlers[h].request_data, status_code),
                       security_result |-> handlers[h].security_result,
                       final_result |-> ret'.result,
                       headers |->
                         [risk_score |-> ret'.result.risk_score,
                          threat |-> ret'.result.is_threat]]]
    /\ LogCall(h, "middleware", [result |-> ret'.result,
                                 recent_requests |-> ret'.recent_requests])
    /\ UNCHANGED <<now, nticks, ntrains, metvars>>

MwNext ==
    \/ \E d \in TickSteps : Tick(d)
    \/ \E h \in Handlers, req \in MwRequests : MwEnter(h, req)
    \/ \E h \in Handlers, body \in Bodies : MwServe(h, body)
    \/ \E h \in Handlers, status_code \in Statuses : MwLeave(h, status_code)

MwSpec == ColdInit /\ [][MwNext]_vars

----------------------------------------------------------------------------
(* Claims about the security monitor *)

AllRulesWeight ==
    UaWeight + RateWeight + EndpointWeight + MethodWeight + ErrorWeight
    + MlWeight

\* C1: every analyze_request call returns a risk_score within [0.0, 1.0], and
\* is_threat is true exactly when the returned risk_score is above 0.5,
\* whichever rules fired, the ML stage included.
C1_RiskScoreClamped ==
    ret.op = "analyze" =>
      /\ ret.result.risk_score \in 0..ScoreCap
      /\ ret.result.is_threat <=> (ret.result.risk_score > ThreatThreshold)

\* all six rules fired in one call
C1_Witness ==
    /\ ret.op = "analyze"
    /\ Len(ret.result.threats) = 6
    /\ ret.raw_score = AllRulesWeight
    /\ ret.result.risk_score = ScoreCap
    /\ ret.result.is_threat

\* the window of the client the last analyze_request call was for
LastWindow == ip_request_times[ret.result.client_ip]

Ascending(times) ==
    \A i \in 1..Len(times), j \in 1..Len(times) : i <= j => times[i] <= times[j]

\* C2 as it is stated: after analyze_request has recorded client c at time t,
\* every timestamp of c's window lies in (t - 60, t], in ascending order.
C2_WindowHalfOpen ==
    ret.op = "analyze" =>
      /\ \A i \in 1..Len(LastWindow) :
           /\ LastWindow[i] > ret.result.timestamp - WindowSeconds
           /\ LastWindow[i] <= ret.result.timestamp
      /\ Ascending(LastWindow)

\* C2, amended: after analyze_request has recorded client c at time t, every
\* timestamp of c's window lies in the closed interval [t - 60, t], in
\* ascending order, and the window ends with t; a timestamp exactly 60
\* seconds old is retained.
C2_WindowClosed ==
    ret.op = "analyze" =>
      /\ \A i \in 1..Len(LastWindow) :
           /\ LastWindow[i] >= ret.result.timestamp - WindowSeconds
           /\ LastWindow[i] <= ret.result.timestamp
      /\ Ascending(LastWindow)
      /\ LastWindow # <<>>
      /\ LastWindow[Len(LastWindow)] = ret.result.timestamp

\* a call finds entries exactly 60 seconds old in the window and keeps them
C2_Witness ==
    /\ ret.op = "analyze"
    /\ Len(LastWindow) > 1
    /\ LastWindow[1] = ret.result.timestamp - WindowSeconds
    /\ LastWindow[Len(LastWindow)] = ret.result.timestamp

\* C3: train_security_model with fewer than 10 samples returns False and
\* leaves is_trained and the security model as they were before the call.
C3_SmallBatchRejected ==
    (ret.op = "train" /\ ret.n < MinSamples) =>
      /\ ret.value = FALSE
      /\ is_trained = ret.before.is_trained
      /\ security_model = ret.before.security_model

\* a trained monitor is handed a batch that is too small and stays trained
C3_Witness ==
    /\ ret.op = "train"
    /\ ret.n = MinSamples - 1
    /\ ret.value = FALSE
    /\ is_trained
    /\ security_model.fits = 1

\* C5 as it is stated: with an untrained model, the request with the
\* denylisted user agent gets a returned risk_score at least 0.3 above that
\* of the same request with a clean user agent.
C5_ReturnedScoresDiffer ==
    (ret.op = "pair" /\ ~ret.trained) =>
      ret.result.risk_score >= ret.other.risk_score + UaWeight

\* C5, amended: with an untrained model, the accumulated score of the request
\* with the denylisted user agent is 0.3 above the other's, its returned
\* risk_score is never below the other's, and the returned scores differ by
\* 0.3 whenever the other's accumulated score is at most 0.7; above that the
\* cap at 1.0 makes the difference smaller, down to none.
C5_AccumulatedScoresDiffer ==
    (ret.op = "pair" /\ ~ret.trained) =>
      /\ ret.raw_score = ret.other_raw_score + UaWeight
      /\ ret.result.risk_score >= ret.other.risk_score
      /\ ret.result.risk_score = Capped(ret.other_raw_score + UaWeight)
      /\ ret.other_raw_score <= ScoreCap - UaWeight
           => ret.result.risk_score = ret.other.risk_score + UaWeight

\* a pair whose returned scores are both at the cap, the user agent of the
\* first matching two entries of the denylist
C5_Witness ==
    /\ ret.op = "pair"
    /\ ~ret.trained
    /\ ret.result.user_agent = UaNmapBot
    /\ ret.other_raw_score =
         RateWeight + EndpointWeight + MethodWeight + ErrorWeight
    /\ ret.other.risk_score = ScoreCap
    /\ ret.result.risk_score = ScoreCap

\* the high-request-rate rule is among the threats of the last call
RateFired ==
    \E i \in 1..Len(ret.result.threats) : ret.result.threats[i].rule = "rate"

\* C6 as it is stated: the rate rule fires on a call exactly when the window
\* after recording it holds more than 50 entries; in a burst within 10
\* seconds from a client without history it does not fire on calls 1..50 and
\* fires on the 51st, and a denylisted user agent on /login with GET/200 gets
\* is_threat = false on calls 1..50 and true on the 51st.
C6_BurstFlaggedOn51st ==
    ret.op = "analyze" =>
      /\ RateFired <=> Len(LastWindow) > max_requests_per_ip_per_minute
      /\ ncalls <= max_requests_per_ip_per_minute =>
           ~RateFired /\ ~ret.result.is_threat
      /\ ncalls = max_requests_per_ip_per_minute + 1 =>
           RateFired /\ ret.result.is_threat

\* C6, amended: the rate rule fires exactly when the window after recording
\* holds more than 50 entries; in the burst it does not fire on calls 1..50
\* and fires on the 51st; the 51st call is a threat; a call among 1..50 is
\* not a threat when the ML stage adds nothing to it (model untrained, no
\* anomaly predicted, or the stage raised) and scores 0.3, and is a threat
\* with 0.8 when a trained model flags it.
C6_BurstFlaggedUnlessMl ==
    ret.op = "analyze" =>
      /\ RateFired <=> Len(LastWindow) > max_requests_per_ip_per_minute
      /\ ret.recent_requests = Len(LastWindow)
      /\ ncalls <= max_requests_per_ip_per_minute =>
           /\ ~RateFired
           /\ ret.ml # "anomaly" =>
                /\ ~ret.result.is_threat
                /\ ret.result.risk_score = UaWeight
           /\ ret.ml = "anomaly" =>
                /\ ret.result.is_threat
                /\ ret.result.risk_score = UaWeight + MlWeight
      /\ ncalls = max_requests_per_ip_per_minute + 1 =>
           /\ RateFired
           /\ ret.result.is_threat
           /\ ret.result.risk_score >= UaWeight + RateWeight

\* the 51st call of a burst that began at 0 and ends at 10, model untrained
C6_Witness ==
    /\ ret.op = "analyze"
    /\ ncalls = max_requests_per_ip_per_minute + 1
    /\ ~is_trained
    /\ now = BurstSeconds
    /\ LastWindow[1] = 0
    /\ Len(LastWindow) = max_requests_per_ip_per_minute + 1
    /\ RateFired
    /\ ret.result.risk_score = UaWeight + RateWeight
    /\ ret.result.is_threat

\* the calls the log holds for client c, in the order they ran
CallsOf(c) == SelectSeq(calls, LAMBDA e : e.client_ip = c)

\* the timestamps of a log, in order
Stamps(log) == [i \in 1..Len(log) |-> log[i].timestamp]

\* C10: analyze_request calls of handlers that interleave are linearizable on
\* a client's window and request counter: the counter is the number of calls
\* made for the client, the window is exactly the calls' timestamps that
\* are not older than 60 seconds at the last of them, and every call saw the
\* window size that running the calls one after the other gives.
C10_CallsLinearizable ==
    \A c \in Clients :
      LET log == CallsOf(c)
      IN  /\ Get(ip_request_counts, c, 0) = Len(log)
          /\ log # <<>> =>
               Get(ip_request_times, c, <<>>) =
                 SelectSeq(Stamps(log),
                           LAMBDA t : t >= log[Len(log)].timestamp
                                            - WindowSeconds)
          /\ \A i \in 1..Len(log) :
               log[i].recent_requests =
                 Len(SelectSeq(Stamps(SubSeq(log, 1, i)),
                               LAMBDA t : t >= log[i].timestamp
                                                - WindowSeconds))

\* two handlers are in flight for the same client, the second entered
\* between the two calls of the first, and a call has pruned the window
C10_Witness ==
    /\ Len(calls) = 4
    /\ calls[1].handler # calls[2].handler
    /\ calls[1].handler = calls[3].handler
    /\ \A i \in 1..4 : calls[i].client_ip = ClientA
    /\ calls[4].timestamp > calls[1].timestamp + WindowSeconds
    /\ calls[4].recent_requests < 4
    /\ ip_request_counts[ClientA] = 4

\* the keys of the dict analyze_request returns (lines 114-124)
AssessmentKeys ==
    {"threats", "risk_score", "is_threat", "client_ip", "timestamp",
     "user_agent", "endpoint", "method", "status_code"}

\* the rule is among the threats of the last call
Fired(rule) ==
    \E i \in 1..Len(ret.result.threats) : ret.result.threats[i].rule = rule

\* C11: analyze_request is total: whatever the request (fields missing,
\* empty strings, any status) and whatever the tracker and model state, no
\* exception leaves the call, it returns an assessment with all nine keys
\* stamped with the time of the call, and an empty user agent or endpoint
\* fires no rule.
C11_AnalyzeTotal ==
    ret.op = "analyze" =>
      /\ ~ret.raised
      /\ DOMAIN ret.result = AssessmentKeys
      /\ ret.result.timestamp <= now
      /\ ret.result.user_agent = <<>> => ~Fired("ua")
      /\ ret.result.endpoint = <<>> => ~Fired("endpoint")

\* a request without any field reaches a trained monitor whose model raises
C11_Witness ==
    /\ ret.op = "analyze"
    /\ ~ret.raised
    /\ is_trained
    /\ ret.ml = "error"
    /\ ret.result.client_ip = Unknown
    /\ ret.result.user_agent = <<>>
    /\ ret.result.endpoint = <<>>
    /\ ret.result.threats = <<>>

\* the request an assessment was made for
RequestOf(result) ==
    [client_ip |-> result.client_ip, user_agent |-> result.user_agent,
     endpoint |-> result.endpoint, method |-> result.method,
     status_code |-> result.status_code]

\* C12: when the ML stage raises in a trained monitor, the call returns
\* exactly the assessment an untrained monitor in the same tracker state
\* returns for the same request (threats and risk_score of rules 1-5 alone),
\* and the tracker keeps the updates of the call; the model stays trained.
C12_MlErrorFallsBack ==
    [][(ncalls' = ncalls + 1 /\ ~ret'.raised /\ ret'.ml = "error") =>
         LET u == Analyze([Monitor EXCEPT !.is_trained = FALSE],
                          RequestOf(ret'.result), now, "normal")
         IN  /\ ret'.result = u.result
             /\ ret'.raw_score = ret'.rule_score
             /\ ip_request_counts' = u.m.counts
             /\ ip_request_times' = u.m.times
             /\ error_counts' = u.m.errors
             /\ has_error_counts' = u.m.has_errors
             /\ is_trained' /\ security_model' = security_model]_vars

\* the model raised on a call on which rules fired, the error rule included
C12_Witness ==
    /\ ret.op = "analyze"
    /\ ~ret.raised
    /\ ret.ml = "error"
    /\ is_trained
    /\ Fired("error")
    /\ ret.rule_score > ThreatThreshold
    /\ ret.result.risk_score = Capped(ret.rule_score)

\* rules 1-5 in the order the code runs them, and their weights
RuleOrder == <<"ua", "rate", "endpoint", "method", "error">>

WeightOf(rule) ==
    CASE rule = "ua" -> UaWeight
      [] rule = "rate" -> RateWeight
      [] rule = "endpoint" -> EndpointWeight
      [] rule = "method" -> MethodWeight
      [] rule = "error" -> ErrorWeight
      [] rule = "ml" -> MlWeight

\* whether the condition of a rule holds for the last call, read off the
\* returned request fields and the tracker
Holds(rule) ==
    CASE rule = "ua" ->
           \E i \in 1..Len(suspicious_user_agents) :
             Contains(suspicious_user_agents[i], Lower(ret.result.user_agent))
      [] rule = "rate" ->
           ret.recent_requests > max_requests_per_ip_per_minute
      [] rule = "endpoint" ->
           \E i \in 1..Len(suspicious_endpoints) :
             Contains(suspicious_endpoints[i], Lower(ret.result.endpoint))
      [] rule = "method" -> ret.result.method \notin AllowedMethods
      [] rule = "error" ->
           /\ ret.result.status_code >= ErrorStatus
           /\ Get(error_counts,
                  ErrorKey(ret.result.client_ip, ret.result.endpoint), 0)
                > ErrorThreshold

HeldRules == SelectSeq(RuleOrder, Holds)

RECURSIVE SumOf(_)
SumOf(rules) ==
    IF rules = <<>> THEN 0 ELSE WeightOf(Head(rules)) + SumOf(Tail(rules))

\* C15: with an untrained model the threats of a call are one entry for
\* each rule whose condition holds, in rule order, each with its weight and
\* none twice; the uncapped score is the sum of those weights and the
\* returned risk_score the smaller of that sum and 1.0; a first request with
\* user agent sqlmap/1.0 on /login with GET and 200 gets one threat, 0.3 and
\* is_threat = false.
C15_ScoreIsSumOfRules ==
    (ret.op = "analyze" /\ ret.ml = "skipped") =>
      /\ Len(ret.result.threats) = Len(HeldRules)
      /\ \A i \in 1..Len(HeldRules) :
           /\ ret.result.threats[i].rule = HeldRules[i]
           /\ ret.result.threats[i].weight = WeightOf(HeldRules[i])
      /\ ret.raw_score = SumOf(HeldRules)
      /\ ret.result.risk_score =
           (IF SumOf(HeldRules) < ScoreCap THEN SumOf(HeldRules) ELSE ScoreCap)
      /\ (/\ ret.result.user_agent = UaSqlmap
          /\ ret.result.endpoint = EpLogin
          /\ ret.result.method = GET
          /\ ret.result.status_code = 200
          /\ ip_request_counts[ret.result.client_ip] = 1) =>
           /\ Len(ret.result.threats) = 1
           /\ ret.result.threats[1].rule = "ua"
           /\ ret.result.risk_score = UaWeight
           /\ ~ret.result.is_threat

\* the first request of a client, sqlmap/1.0 on /login, and nothing else
C15_Witness ==
    /\ ret.op = "analyze"
    /\ ret.ml = "skipped"
    /\ ret.result.user_agent = UaSqlmap
    /\ ret.result.endpoint = EpLogin
    /\ ret.result.method = GET
    /\ ret.result.status_code = 200
    /\ ip_request_counts[ret.result.client_ip] = 1
    /\ ret.result.risk_score = UaWeight
    /\ ~ret.result.is_threat

\* the rule is among threats
ThreatsHave(threats, rule) ==
    \E i \in 1..Len(threats) : threats[i].rule = rule

\* the error counter the code keeps for the pair (client, endpoint)
ErrorCount(errors, client_ip, endpoint) ==
    Get(errors, ErrorKey(client_ip, endpoint), 0)

\* C16: a call with status_code >= 400 adds exactly one to the error counter
\* of its (client, endpoint) pair and gets the +0.3 exactly when the counter
\* then exceeds 10, so that the rule first fires on the 11th error of the
\* pair (the client has then made at least 11 calls since the counters were
\* last empty); a call with a lower status changes no error counter and
\* does not get the contribution.
C16_ErrorRuleCountsPair ==
    [][(ncalls' = ncalls + 1 /\ ~ret'.raised) =>
         LET r == ret'.result
             before == ErrorCount(error_counts, r.client_ip, r.endpoint)
             after == ErrorCount(error_counts', r.client_ip, r.endpoint)
             fired == ThreatsHave(r.threats, "error")
         IN  /\ r.status_code >= ErrorStatus =>
                  /\ after = before + 1
                  /\ fired <=> after > ErrorThreshold
             /\ r.status_code < ErrorStatus =>
                  /\ error_counts' = error_counts
                  /\ ~fired
             /\ fired => Get(ip_request_counts', r.client_ip, 0)
                            > ErrorThreshold]_vars

\* C17: the error counters of different (client, endpoint) pairs are
\* independent: a call for one pair leaves the counter of every other pair,
\* as the code looks it up, where it was, and the rule fires for a pair
\* only on errors of that pair.
C17_ErrorCountersIndependent ==
    [][(ncalls' = ncalls + 1 /\ ~ret'.raised) =>
         \A client_ip \in ClientTexts, endpoint \in EndpointTexts :
           <<client_ip, endpoint>>
             # <<ret'.result.client_ip, ret'.result.endpoint>> =>
               ErrorCount(error_counts', client_ip, endpoint)
                 = ErrorCount(error_counts, client_ip, endpoint)]_vars

\* C18: the window size a call observes is at least 1, so a trained monitor
\* runs the ML stage on every call; the stage comes after rules 1-5 and is
\* handed [window size, len(user_agent), len(endpoint), status_code,
\* uncapped sum of rules 1-5]; a flagged outlier adds exactly 0.5 and its
\* threat is the last one, and without a flag the stage adds nothing.
C18_MlStageAfterRules ==
    ret.op = "analyze" =>
      /\ ret.recent_requests >= 1
      /\ ret.recent_requests = Len(LastWindow)
      /\ is_trained <=> ret.ml # "skipped"
      /\ ret.rule_score = SumOf(HeldRules)
      /\ ret.ml # "skipped" =>
           ret.features = <<ret.recent_requests, Len(ret.result.user_agent),
                            Len(ret.result.endpoint), ret.result.status_code,
                            SumOf(HeldRules)>>
      /\ ret.ml = "anomaly" =>
           /\ ret.raw_score = ret.rule_score + MlWeight
           /\ Len(ret.result.threats) = Len(HeldRules) + 1
           /\ ret.result.threats[Len(ret.result.threats)].rule = "ml"
      /\ ret.ml # "anomaly" =>
           /\ ret.raw_score = ret.rule_score
           /\ ~Fired("ml")

\* a trained model flags a call on which all five rules fired: the vector
\* carries their uncapped sum, 1.3
C18_Witness ==
    /\ ret.op = "analyze"
    /\ is_trained
    /\ ret.ml = "anomaly"
    /\ Len(ret.result.threats) = 6
    /\ ret.features[5] = AllRulesWeight - MlWeight
    /\ ret.features[5] > ScoreCap
    /\ ret.features[1] = max_requests_per_ip_per_minute + 1
    /\ ret.result.threats[6].rule = "ml"

\* the analyze_request calls made while HTTP request h was handled
HandlerCalls(h) == SelectSeq(calls, LAMBDA e : e.handler = h)

\* those of them the middleware itself made
MiddlewareCalls(h) ==
    SelectSeq(HandlerCalls(h), LAMBDA e : e.by = "middleware")

\* those of them made for client c
CallsFor(h, c) == SelectSeq(HandlerCalls(h), LAMBDA e : e.client_ip = c)

\* what is common to C19 as stated and as amended: two calls by the
\* middleware, with 200 and then with the status of the response, at most
\* one call with an error status, headers taken from the second call
MiddlewareCallsTwice(h) ==
    /\ Len(MiddlewareCalls(h)) = 2
    /\ MiddlewareCalls(h)[1].status_code = 200
    /\ MiddlewareCalls(h)[2].status_code = handlers[h].response_status
    /\ Len(SelectSeq(HandlerCalls(h),
                     LAMBDA e : e.status_code >= ErrorStatus)) <= 1
    /\ handlers[h].final_result.status_code = handlers[h].response_status
    /\ handlers[h].headers.risk_score = handlers[h].final_result.risk_score
    /\ handlers[h].headers.threat = handlers[h].final_result.is_threat

JustReset ==
    /\ \A ip \in DOMAIN ip_request_times : ip_request_times[ip] = <<>>
    /\ \A ip \in DOMAIN ip_request_counts : ip_request_counts[ip] = 0
    /\ \A key \in DOMAIN error_counts : error_counts[key] = 0
    /\ is_trained = ret.before.is_trained
    /\ security_model = ret.before.security_model

\* C20: reset_counters empties every window and zeroes every request and
\* error count and leaves is_trained and the model alone; a
\* get_security_summary that follows reports 0 active ips, 0 high-risk ips,
\* 0 requests tracked and the trained flag as before; an analyze_request
\* that follows observes window size 1 and, when its status is an error, an
\* error count of 1.
C20_ResetClearsTracker ==
    /\ [](ret.op = "reset" => JustReset)
    /\ [][(ret.op = "reset" /\ ret'.op = "summary") =>
            /\ ret'.value.active_ips = 0
            /\ ret'.value.high_risk_ips = 0
            /\ ret'.value.total_requests_tracked = 0
            /\ ret'.value.model_trained = ret.before.is_trained]_vars
    /\ [][(ret.op = "reset" /\ ncalls' = ncalls + 1 /\ ~ret'.raised) =>
            /\ ret'.recent_requests = 1
            /\ ip_request_counts'[ret'.result.client_ip] = 1
            /\ ~ThreatsHave(ret'.result.threats, "rate")
            /\ ~ThreatsHave(ret'.result.threats, "error")
            /\ ErrorCount(error_counts', ret'.result.client_ip,
                          ret'.result.endpoint)
                 = (IF ret'.result.status_code >= ErrorStatus THEN 1 ELSE 0)
           ]_vars

\* a trained monitor holding the history of one client was reset, and the
\* request of another client that follows, an error, counts from 1
C20_Witness ==
    /\ ret.op = "analyze"
    /\ is_trained
    /\ ret.result.status_code = ErrorStatus
    /\ ret.recent_requests = 1
    /\ ip_request_counts = Put(EmptyDict, ret.result.client_ip, 1)
    /\ error_counts =
         Put(EmptyDict, ErrorKey(ret.result.client_ip, ret.result.endpoint), 1)
    /\ \E ip \in DOMAIN ip_request_times :
         ip # ret.result.client_ip /\ ip_request_times[ip] = <<>>

\* the entries of a window that lie within the 60 seconds before current_time
CurrentWindow(times, current_time) ==
    SelectSeq(times, LAMBDA t : t >= current_time - WindowSeconds)

\* C13: the high_risk_ips of get_security_summary is the number of clients
\* with more than 50 requests within the 60 seconds before the call, and a
\* client without any request in those 60 seconds is not counted.
C13_HighRiskIsCurrent ==
    ret.op = "summary" =>
      ret.value.high_risk_ips =
        Cardinality({ip \in DOMAIN ip_request_times :
                       Len(CurrentWindow(ip_request_times[ip], ret.at))
                         > max_requests_per_ip_per_minute})

----------------------------------------------------------------------------
(* main.py: the metrics detector (/train, /detect) *)

\* the detector's globals as one value
Detector ==
    [forest |-> isolation_forest, scaler |-> scaler,
     training_data |-> training_data, trained |-> is_model_trained]

SetDetector(d) ==
    /\ isolation_forest' = d.forest
    /\ scaler' = d.scaler
    /\ training_data' = d.training_data
    /\ is_model_trained' = d.trained

\* main.py lines 70-76: the startup event builds the forest; fit names the
\* batch it was fitted on and scaled_by the scaler fit that scaled that batch
StartupEvent ==
    /\ isolation_forest = NoForest
    /\ isolation_forest' = [fit |-> 0, scaled_by |-> 0]
    /\ UNCHANGED <<now, secvars, ret, ncalls, nticks, ntrains, scaler,
                   training_data, is_model_trained, anomaly_counter, mret,
                   mstats, mwvars>>

\* What a /train body is: its number of samples and what the two library
\* calls do with it.  scaler.fit_transform (line 106) raises on an empty or
\* non-numeric batch, and then leaves the scaler as it was or, having reset
\* it first, unfitted; isolation_forest.fit (line 109) raises on a batch the
\* scaler accepts and the forest does not (a NaN field).
MetricTrainInputs ==
    [n : {MinSamples - 1, MinSamples},
     outcome : {"fits", "forest_raises"}]
    \cup
    [n : {0, MinSamples - 1, MinSamples},
     outcome : {"scaler_raises", "scaler_raises_reset"}]

\* TrainModel with the assignment of line 111 moved above the two fits
TrainModelFlagFirst(d, in, id) ==
    IF in.outcome \in {"scaler_raises", "scaler_raises_reset"}
    THEN [d |-> [d EXCEPT !.scaler = IF in.outcome = "scaler_raises_reset"
                                     THEN UnfittedScaler ELSE @,
                          !.trained = TRUE],
          status |-> 500]
    ELSE IF in.outcome = "forest_raises"
    THEN [d |-> [d EXCEPT !.scaler = [fit |-> id], !.trained = TRUE],
          status |-> 500]
    ELSE [d |-> [forest |-> [fit |-> id, scaled_by |-> id],
                 scaler |-> [fit |-> id],
                 training_data |-> id,
                 trained |-> TRUE],
          status |-> 200]

\* main.py lines 95-118: the detector after the call, and the HTTP status;
\* id is the number of this train call
TrainModel(d, in, id) ==
    IF in.outcome \in {"scaler_raises", "scaler_raises_reset"}
    THEN [d |-> [d EXCEPT !.scaler = IF in.outcome = "scaler_raises_reset"
                                     THEN UnfittedScaler ELSE @],
          status |-> 500]
    ELSE IF in.outcome = "forest_raises"
    THEN [d |-> [d EXCEPT !.scaler = [fit |-> id]], status |-> 500]
    ELSE [d |-> [forest |-> [fit |-> id, scaled_by |-> id],
                 scaler |-> [fit |-> id],
                 training_data |-> id,
                 trained |-> TRUE],
          status |-> 200]

\* POST /train
TrainModelCall(in) ==
    /\ isolation_forest # NoForest
    /\ mstats.trains < MaxMetricTrains
    /\ LET t == TrainModel(Detector, in, mstats.trains + 1)
       IN  /\ SetDetector(t.d)
           /\ mret' = [op |-> "train", n |-> in.n, outcome |-> in.outcome,
                       status |-> t.status, before |-> Detector]
           /\ mstats' = [mstats EXCEPT
                           !.trains = @ + 1,
                           !.trains_ok = IF t.status = 200 THEN @ + 1 ELSE @]
    /\ UNCHANGED <<now, secvars, ret, ncalls, nticks, ntrains,
                   anomaly_counter, mwvars>>

MetricSamples == {"typical", "outlying"}

\* main.py lines 123-168: the status, the AnomalyResult when there is one,
\* the counter after the call, the scaler and forest fits the score came from
DetectAnomaly(d, counter, sample, ml) ==
    IF ~d.trained
    THEN [status |-> 400, counter |-> counter]
    ELSE IF d.scaler.fit = 0 \/ ml = "error"
    THEN [status |-> 500, counter |-> counter,
          used |-> [scaler |-> d.scaler.fit, forest |-> d.forest.fit,
                    forest_scaled_by |-> d.forest.scaled_by]]
    ELSE [status |-> 200,
          counter |-> IF ml = "anomaly" THEN counter + 1 ELSE counter,
          result |-> [is_anomaly |-> ml = "anomaly", metrics |-> sample],
          used |-> [scaler |-> d.scaler.fit, forest |-> d.forest.fit,
                    forest_scaled_by |-> d.forest.scaled_by]]

\* POST /detect
DetectCall(sample, ml) ==
    /\ isolation_forest # NoForest
    /\ mstats.detects < MaxDetects
    /\ LET r == DetectAnomaly(Detector, anomaly_counter, sample, ml)
       IN  /\ anomaly_counter' = r.counter
           /\ mret' = [op |-> "detect", out |-> r,
                       trains_ok |-> mstats.trains_ok,
                       counter_before |-> anomaly_counter]
           /\ mstats' = [mstats EXCEPT
                           !.detects = @ + 1,
                           !.results = IF r.status = 200 THEN @ + 1 ELSE @]
    /\ UNCHANGED <<now, secvars, ret, ncalls, nticks, ntrains,
                   isolation_forest, scaler, training_data, is_model_trained,
                   mwvars>>

MetricsNext ==
    \/ StartupEvent
    \/ \E in \in MetricTrainInputs : TrainModelCall(in)
    \/ \E sample \in MetricSamples, ml \in MlOutcomes : DetectCall(sample, ml)

MetricsSpec == ColdInit /\ [][MetricsNext]_vars

----------------------------------------------------------------------------
(* Both detectors side by side: every operation that could touch a trained *)
(* flag                                                                     *)

FlagsNext ==
    \/ \E ml \in MlOutcomes : AnalyzeRequest(BurstRequest, ml)
    \/ \E in \in TrainInputs : TrainSecurityModel(in)
    \/ GetSecuritySummary
    \/ ResetCounters
    \/ StartupEvent
    \/ \E in \in MetricTrainInputs : TrainModelCall(in)
    \/ \E sample \in MetricSamples, ml \in MlOutcomes : DetectCall(sample, ml)

FlagsSpec == ColdInit /\ [][FlagsNext]_vars

----------------------------------------------------------------------------
(* Claims about the metrics detector *)

\* C4: as long as no /train call has succeeded, failed ones or not, /detect
\* fails with the not-trained error (400), no AnomalyResult has been returned
\* and the anomaly counter has not moved.
C4_DetectNeedsTraining ==
    mstats.trains_ok = 0 =>
      /\ anomaly_counter = 0
      /\ mstats.results = 0
      /\ mret.op = "detect" => mret.out.status = 400

\* /detect is refused after a /train call that failed
C4_Witness ==
    /\ mret.op = "detect"
    /\ mret.out.status = 400
    /\ mstats.trains > 0
    /\ mstats.trains_ok = 0
    /\ scaler.fit # 0

\* C7: a /train call that fails is reported as an error and leaves the
\* scaler, the forest and the trained flag as they were before the call.
C7_FailedTrainChangesNothing ==
    (mret.op = "train" /\ mret.outcome # "fits") =>
      /\ mret.status = 500
      /\ scaler = mret.before.scaler
      /\ isolation_forest = mret.before.forest
      /\ is_model_trained = mret.before.trained

\* C8: a /train call with fewer than 10 samples fails and does not put the
\* detector into the trained state.
C8_SmallBatchDoesNotTrain ==
    (mret.op = "train" /\ mret.n < MinSamples) =>
      /\ mret.status # 200
      /\ is_model_trained = mret.before.trained

\* C9: training is atomic for scoring: every /detect call that gets past the
\* not-trained check (line 123) works with a scaler and a forest of one and
\* the same training: the forest in use was fitted on the batch as scaled by
\* the very scaler fit in use, never a newer or a reset scaler with an older
\* forest.
C9_ScoringUsesOnePair ==
    (mret.op = "detect" /\ mret.out.status # 400) =>
      mret.out.used.scaler = mret.out.used.forest_scaled_by

\* C14: both trained flags start false, a step makes one true only when it
\* is a train call of that detector that succeeded, and no step of any
\* operation makes one false again.
C14_TrainedIsMonotone ==
    /\ ~is_trained /\ ~is_model_trained
    /\ [][/\ is_trained => is_trained'
          /\ is_model_trained => is_model_trained'
          /\ (~is_trained /\ is_trained') =>
               (ret'.op = "train" /\ ret'.value = TRUE)
          /\ (~is_model_trained /\ is_model_trained') =>
               (mret'.op = "train" /\ mret'.status = 200)]_vars

\* both detectors are trained and have since seen a reset and a failed train
C14_Witness ==
    /\ is_trained
    /\ is_model_trained
    /\ ret.op = "reset"
    /\ mret.op = "train"
    /\ mret.status = 500

====
